---- MODULE Spec2Model ----
(***************************************************************************)
(* Multi-Level Queue scheduler simulator (src/MLQ/script.js).              *)
(*                                                                         *)
(* The page keeps the engine in module-level variables and drives it from  *)
(* three buttons: Start (startSimulation), Next Step (nextStep) and Reset  *)
(* (resetSimulation).  The settings are form fields that nextStep reads    *)
(* again on every call (getSettings).  A process object is shared between  *)
(* the processes array, the ready queues and currentProcess; here a        *)
(* process is its index in processes and the queues hold indices.          *)
(***************************************************************************)
EXTENDS Integers, Sequences, FiniteSets, TLC

\* ---------------------------------------------------------------- bounds
MaxTime == 6        \* Next Step is not pressed once currentTime reaches this

\* The values typed into the table and the settings form.  0 is accepted by
\* the page as well as the positive values (startSimulation checks only the
\* priority; getSettings checks nothing).
ArrivalTimes == 0..2
BurstTimes == 0..2
QuantumValues == 0..2
IntervalValues == 0..2

NumLevels == 3
Levels == 1..NumLevels

\* Names of the table rows, in row order (the names are distinct).
RowNames == <<"P1", "P2">>

\* A table row as startSimulation reads it.  A row with an empty cell is
\* skipped and a row whose priority is outside 1..3 is never pushed, so the
\* other cells of such rows are not varied.
BlankRow == [name |-> "", at |-> 0, bt |-> 0, prio |-> 0]

RowDomain(i) ==
  [name : {RowNames[i]}, at : ArrivalTimes, bt : BurstTimes, prio : Levels]
  \cup [name : {RowNames[i]}, at : {1}, bt : {1}, prio : {0, NumLevels + 1}]
  \cup {BlankRow}

\* The tables Start is pressed with: one row per name.
Tables == RowDomain(1) \X RowDomain(2)

\* The tables tried when Start is pressed over the leftovers of an earlier run
\* (startSimulation clears every global first, so what it builds does not
\* depend on them): those with only the first row filled in.
RestartTables == RowDomain(1) \X {BlankRow}

\* What getSettings can return.  One call of nextStep reads the quantum of at
\* most one level (the level it selects from), so the three quantum fields
\* are varied together: every level takes every value of QuantumValues, and
\* the values of the levels differ.
QuantumFields ==
  { [l \in Levels |-> (l + k) % Cardinality(QuantumValues)] :
      k \in 0..(Cardinality(QuantumValues) - 1) }

SettingsDomain ==
  [quantum : QuantumFields,
   agingInterval : IntervalValues,
   starvationInterval : IntervalValues]

\* ----------------------------------------------------------------- state
VARIABLES
  processes,          \* array of process objects
  readyQueues,        \* three arrays of processes (indices), level 1..3
  simulationStarted,
  currentTime,
  currentProcess,     \* index into processes, 0 for null
  quantumCounters,
  arrivedProcesses,   \* Set of names
  ganttBlocks,
  lastProcessTime,
  consoleLog          \* what the last handler call wrote with console.log

vars == <<processes, readyQueues, simulationStarted, currentTime, currentProcess,
          quantumCounters, arrivedProcesses, ganttBlocks, lastProcessTime,
          consoleLog>>

NoProcess == 0

\* The engine's globals as one value, threaded through the handlers' steps.
Engine ==
  [processes |-> processes, readyQueues |-> readyQueues,
   simulationStarted |-> simulationStarted, currentTime |-> currentTime,
   currentProcess |-> currentProcess, quantumCounters |-> quantumCounters,
   arrivedProcesses |-> arrivedProcesses, ganttBlocks |-> ganttBlocks,
   lastProcessTime |-> lastProcessTime, consoleLog |-> <<>>]

\* The cleared globals that resetSimulation and startSimulation both set.
ClearedEngine ==
  [processes |-> <<>>, readyQueues |-> [l \in Levels |-> <<>>],
   simulationStarted |-> FALSE, currentTime |-> 0,
   currentProcess |-> NoProcess, quantumCounters |-> [l \in Levels |-> 0],
   arrivedProcesses |-> {}, ganttBlocks |-> <<>>,
   lastProcessTime |-> 0, consoleLog |-> <<>>]

\* One console.log line: the event, the process, and two numbers.
LogLine(ev, p, a, b) == [ev |-> ev, p |-> p, a |-> a, b |-> b]

\* queue.splice(i, 1)
RemoveAt(q, i) == SubSeq(q, 1, i - 1) \o SubSeq(q, i + 1, Len(q))

\* -------------------------------------------------------- startSimulation
NewProcess(row) ==
  [name |-> row.name, arrivalTime |-> row.at, burstTime |-> row.bt,
   remainingTime |-> row.bt, priority |-> row.prio,
   processingTime |-> 0, waitingTime |-> 0]

\* The row loop: a row with an empty cell is skipped; a row with a priority
\* outside 1..3 stops the whole call (the rows pushed before it stay in
\* processes); ok tells whether the loop ended.
RECURSIVE ReadRows(_, _, _)
ReadRows(table, i, acc) ==
  IF i > Len(table) THEN [ok |-> TRUE, processes |-> acc]
  ELSE IF table[i] = BlankRow THEN ReadRows(table, i + 1, acc)
  ELSE IF table[i].prio < 1 \/ table[i].prio > 3
       THEN [ok |-> FALSE, processes |-> acc]
       ELSE ReadRows(table, i + 1, Append(acc, NewProcess(table[i])))

\* startSimulation as it was before it reset the state: it empties processes
\* only, and what an earlier run left in the other globals stays.
StartEngineKeepsRun(table) ==
  LET r == ReadRows(table, 1, <<>>) IN
  [Engine EXCEPT
     !.processes = r.processes,
     !.simulationStarted = r.ok /\ Len(r.processes) > 0,
     !.consoleLog = IF r.ok /\ Len(r.processes) > 0
                    THEN <<LogLine("started", 0, 0, 0)>> ELSE <<>>]

\* startSimulation without its line "arrivedProcesses = new Set()": the names
\* an earlier run marked as arrived stay marked.
StartEngineKeepsArrived(table) ==
  LET r == ReadRows(table, 1, <<>>) IN
  [ClearedEngine EXCEPT
     !.processes = r.processes,
     !.arrivedProcesses = arrivedProcesses,
     !.simulationStarted = r.ok /\ Len(r.processes) > 0,
     !.consoleLog = IF r.ok /\ Len(r.processes) > 0
                    THEN <<LogLine("started", 0, 0, 0)>> ELSE <<>>]

StartEngine(table) ==
  LET r == ReadRows(table, 1, <<>>) IN
  [ClearedEngine EXCEPT
     !.processes = r.processes,
     !.simulationStarted = r.ok /\ Len(r.processes) > 0,
     !.consoleLog = IF r.ok /\ Len(r.processes) > 0
                    THEN <<LogLine("started", 0, 0, 0)>> ELSE <<>>]

\* ------------------------------------------------- handleProcessArrivals
\* The arrival test as the project's notes write it, "arrivalTime <=
\* currentTime": a process whose arrival time has passed arrives late.
RECURSIVE ArrivalsFromLate(_, _)
ArrivalsFromLate(s, i) ==
  IF i > Len(s.processes) THEN s
  ELSE LET p == s.processes[i] IN
       IF p.arrivalTime <= s.currentTime /\ p.name \notin s.arrivedProcesses
       THEN ArrivalsFromLate(
              [s EXCEPT !.readyQueues[p.priority] = Append(@, i),
                        !.arrivedProcesses = @ \cup {p.name},
                        !.consoleLog = Append(@, LogLine("arriving", i, s.currentTime, p.priority))],
              i + 1)
       ELSE ArrivalsFromLate(s, i + 1)

HandleProcessArrivalsLate(s) == ArrivalsFromLate(s, 1)

RECURSIVE ArrivalsFrom(_, _)
ArrivalsFrom(s, i) ==
  IF i > Len(s.processes) THEN s
  ELSE LET p == s.processes[i] IN
       IF p.arrivalTime = s.currentTime /\ p.name \notin s.arrivedProcesses
       THEN ArrivalsFrom(
              [s EXCEPT !.readyQueues[p.priority] = Append(@, i),
                        !.arrivedProcesses = @ \cup {p.name},
                        !.consoleLog = Append(@, LogLine("arriving", i, s.currentTime, p.priority))],
              i + 1)
       ELSE ArrivalsFrom(s, i + 1)

HandleProcessArrivals(s) == ArrivalsFrom(s, 1)

\* ---------------------------------------------- nextStep, steps 3 and 4
\* The execute step decrementing level 1's counter whatever the level of
\* the running process ("quantumCounters[0]--").
ExecuteCurrentFirstCounter(s) ==
  IF s.currentProcess # NoProcess
  THEN LET c == s.currentProcess IN
       [s EXCEPT !.processes[c].processingTime = @ + 1,
                 !.processes[c].remainingTime = @ - 1,
                 !.quantumCounters[1] = @ - 1,
                 !.consoleLog = Append(@, LogLine("executing", c,
                                   s.processes[c].remainingTime - 1,
                                   s.quantumCounters[1] - 1))]
  ELSE s

ExecuteCurrent(s) ==
  IF s.currentProcess # NoProcess
  THEN LET c == s.currentProcess
           lvl == s.processes[c].priority
       IN [s EXCEPT !.processes[c].processingTime = @ + 1,
                    !.processes[c].remainingTime = @ - 1,
                    !.quantumCounters[lvl] = @ - 1,
                    !.consoleLog = Append(@, LogLine("executing", c,
                                      s.processes[c].remainingTime - 1,
                                      s.quantumCounters[lvl] - 1))]
  ELSE s

RECURSIVE WaitQueue(_, _, _)
WaitQueue(procs, q, i) ==
  IF i > Len(q) THEN procs
  ELSE WaitQueue([procs EXCEPT ![q[i]].waitingTime = @ + 1], q, i + 1)

\* Step 4 counting a waiting tick for every arrived process that is not
\* running, finished ones included.
UpdateWaitingTimesAllArrived(s) ==
  [s EXCEPT !.processes =
     [p \in 1..Len(s.processes) |->
        IF s.processes[p].name \in s.arrivedProcesses /\ p # s.currentProcess
        THEN [s.processes[p] EXCEPT !.waitingTime = @ + 1]
        ELSE s.processes[p]]]

UpdateWaitingTimes(s) ==
  [s EXCEPT !.processes =
     WaitQueue(WaitQueue(WaitQueue(s.processes, s.readyQueues[1], 1),
                         s.readyQueues[2], 1), s.readyQueues[3], 1)]

\* ------------------------------------------------------ updateGanttChart
Block(name, start, end, isIdle) ==
  [name |-> name, start |-> start, end |-> end, isIdle |-> isIdle]

Max(a, b) == IF a >= b THEN a ELSE b

\* updateGanttChart as it was before idle slots were recorded explicitly: an
\* idle slot writes nothing, and the gap is closed when a process next runs.
UpdateGanttChartLazyIdle(s) ==
  LET slotStart == Max(0, s.currentTime - 1)
      slotEnd == s.currentTime
      n == Len(s.ganttBlocks)
  IN
  IF s.currentProcess # NoProcess
  THEN LET name == s.processes[s.currentProcess].name IN
       IF n > 0 /\ ~s.ganttBlocks[n].isIdle /\ s.ganttBlocks[n].name = name
       THEN [s EXCEPT !.ganttBlocks[n].end = slotEnd, !.lastProcessTime = slotEnd]
       ELSE LET gap == IF s.lastProcessTime < slotStart
                       THEN <<Block("Idle", s.lastProcessTime, slotStart, TRUE)>>
                       ELSE <<>>
            IN [s EXCEPT !.ganttBlocks = @ \o gap \o <<Block(name, slotStart, slotEnd, FALSE)>>,
                         !.lastProcessTime = slotEnd]
  ELSE s

\* updateGanttChart that starts a new block for every slot.
UpdateGanttChartNoMerge(s) ==
  LET slotStart == Max(0, s.currentTime - 1)
      slotEnd == s.currentTime
  IN
  IF s.currentProcess # NoProcess
  THEN [s EXCEPT !.ganttBlocks =
                    Append(@, Block(s.processes[s.currentProcess].name,
                                    slotStart, slotEnd, FALSE)),
                 !.lastProcessTime = slotEnd]
  ELSE [s EXCEPT !.ganttBlocks = Append(@, Block("Idle", slotStart, slotEnd, TRUE)),
                 !.lastProcessTime = slotEnd]

\* updateGanttChart with the idle branch extending the last block whatever it
\* is ("if (last)" for "if (last && last.isIdle)").
UpdateGanttChartExtendsLast(s) ==
  LET slotStart == Max(0, s.currentTime - 1)
      slotEnd == s.currentTime
      n == Len(s.ganttBlocks)
  IN
  IF s.currentProcess # NoProcess
  THEN LET name == s.processes[s.currentProcess].name IN
       IF n > 0 /\ ~s.ganttBlocks[n].isIdle /\ s.ganttBlocks[n].name = name
       THEN [s EXCEPT !.ganttBlocks[n].end = slotEnd, !.lastProcessTime = slotEnd]
       ELSE LET gap == IF s.lastProcessTime < slotStart
                       THEN <<Block("Idle", s.lastProcessTime, slotStart, TRUE)>>
                       ELSE <<>>
            IN [s EXCEPT !.ganttBlocks = @ \o gap \o <<Block(name, slotStart, slotEnd, FALSE)>>,
                         !.lastProcessTime = slotEnd]
  ELSE IF s.lastProcessTime < slotEnd
       THEN IF n > 0
            THEN [s EXCEPT !.ganttBlocks[n].end = slotEnd, !.lastProcessTime = slotEnd]
            ELSE [s EXCEPT !.ganttBlocks = Append(@, Block("Idle", slotStart, slotEnd, TRUE)),
                           !.lastProcessTime = slotEnd]
       ELSE s

UpdateGanttChart(s) ==
  LET slotStart == Max(0, s.currentTime - 1)
      slotEnd == s.currentTime
      n == Len(s.ganttBlocks)
  IN
  IF s.currentProcess # NoProcess
  THEN LET name == s.processes[s.currentProcess].name IN
       IF n > 0 /\ ~s.ganttBlocks[n].isIdle /\ s.ganttBlocks[n].name = name
       THEN [s EXCEPT !.ganttBlocks[n].end = slotEnd, !.lastProcessTime = slotEnd]
       ELSE LET gap == IF s.lastProcessTime < slotStart
                       THEN <<Block("Idle", s.lastProcessTime, slotStart, TRUE)>>
                       ELSE <<>>
            IN [s EXCEPT !.ganttBlocks = @ \o gap \o <<Block(name, slotStart, slotEnd, FALSE)>>,
                         !.lastProcessTime = slotEnd]
  ELSE IF s.lastProcessTime < slotEnd
       THEN IF n > 0 /\ s.ganttBlocks[n].isIdle
            THEN [s EXCEPT !.ganttBlocks[n].end = slotEnd, !.lastProcessTime = slotEnd]
            ELSE [s EXCEPT !.ganttBlocks = Append(@, Block("Idle", slotStart, slotEnd, TRUE)),
                           !.lastProcessTime = slotEnd]
       ELSE s

\* ---------------------------------------------- nextStep, steps 6 and 7
\* Steps 6 and 7 with the "currentProcess = null" of the quantum branch left out.
CompleteOrExpireKeepsCpu(s) ==
  LET c == s.currentProcess IN
  IF c # NoProcess /\ s.processes[c].remainingTime <= 0
  THEN [s EXCEPT !.currentProcess = NoProcess,
                 !.consoleLog = Append(@, LogLine("completed", c, s.currentTime, 0))]
  ELSE IF c # NoProcess
       THEN LET lvl == s.processes[c].priority IN
            IF s.quantumCounters[lvl] <= 0
            THEN [s EXCEPT !.readyQueues[lvl] = Append(@, c),
                           !.consoleLog = Append(@, LogLine("quantum expired", c, lvl, 0))]
            ELSE s
       ELSE s

CompleteOrExpire(s) ==
  LET c == s.currentProcess IN
  IF c # NoProcess /\ s.processes[c].remainingTime <= 0
  THEN [s EXCEPT !.currentProcess = NoProcess,
                 !.consoleLog = Append(@, LogLine("completed", c, s.currentTime, 0))]
  ELSE IF c # NoProcess
       THEN LET lvl == s.processes[c].priority IN
            IF s.quantumCounters[lvl] <= 0
            THEN [s EXCEPT !.readyQueues[lvl] = Append(@, c),
                           !.currentProcess = NoProcess,
                           !.consoleLog = Append(@, LogLine("quantum expired", c, lvl, 0))]
            ELSE s
       ELSE s

\* ---------------------------------------------- handleAgingAndStarvation
\* The inner loop with the starvation test written "> starvationInterval".
RECURSIVE AgeQueueLateStarvation(_, _, _, _)
AgeQueueLateStarvation(s, settings, lvl, i) ==
  IF i < 1 THEN s
  ELSE
    LET p == s.readyQueues[lvl][i]
        pr == s.processes[p]
    IN
    IF pr.waitingTime > settings.starvationInterval /\ pr.priority > 1
    THEN AgeQueueLateStarvation(
           [s EXCEPT !.readyQueues =
                        [[@ EXCEPT ![lvl] = RemoveAt(@, i)]
                            EXCEPT ![pr.priority - 1] = Append(@, p)],
                     !.processes[p].priority = pr.priority - 1,
                     !.processes[p].waitingTime = 0,
                     !.consoleLog = Append(@, LogLine("starvation", p, pr.priority, pr.priority - 1))],
           settings, lvl, i - 1)
    ELSE IF pr.processingTime >= settings.agingInterval /\ pr.priority < 3
    THEN AgeQueueLateStarvation(
           [s EXCEPT !.readyQueues =
                        [[@ EXCEPT ![lvl] = RemoveAt(@, i)]
                            EXCEPT ![pr.priority + 1] = Append(@, p)],
                     !.processes[p].priority = pr.priority + 1,
                     !.processes[p].processingTime = 0,
                     !.consoleLog = Append(@, LogLine("aging", p, pr.priority, pr.priority + 1))],
           settings, lvl, i - 1)
    ELSE AgeQueueLateStarvation(s, settings, lvl, i - 1)

\* The inner loop at index i of the queue of level lvl, going down to 1.
RECURSIVE AgeQueue(_, _, _, _)
AgeQueue(s, settings, lvl, i) ==
  IF i < 1 THEN s
  ELSE
    LET p == s.readyQueues[lvl][i]
        pr == s.processes[p]
    IN
    IF pr.waitingTime >= settings.starvationInterval /\ pr.priority > 1
    THEN AgeQueue(
           [s EXCEPT !.readyQueues =
                        [[@ EXCEPT ![lvl] = RemoveAt(@, i)]
                            EXCEPT ![pr.priority - 1] = Append(@, p)],
                     !.processes[p].priority = pr.priority - 1,
                     !.processes[p].waitingTime = 0,
                     !.consoleLog = Append(@, LogLine("starvation", p, pr.priority, pr.priority - 1))],
           settings, lvl, i - 1)
    ELSE IF pr.processingTime >= settings.agingInterval /\ pr.priority < 3
    THEN AgeQueue(
           [s EXCEPT !.readyQueues =
                        [[@ EXCEPT ![lvl] = RemoveAt(@, i)]
                            EXCEPT ![pr.priority + 1] = Append(@, p)],
                     !.processes[p].priority = pr.priority + 1,
                     !.processes[p].processingTime = 0,
                     !.consoleLog = Append(@, LogLine("aging", p, pr.priority, pr.priority + 1))],
           settings, lvl, i - 1)
    ELSE AgeQueue(s, settings, lvl, i - 1)

\* The loop over the three queues, in level order.
AgeReadyQueues(s, settings) ==
  LET s1 == AgeQueue(s, settings, 1, Len(s.readyQueues[1]))
      s2 == AgeQueue(s1, settings, 2, Len(s1.readyQueues[2]))
  IN AgeQueue(s2, settings, 3, Len(s2.readyQueues[3]))

\* The current-process check as its last comment has it ("Don't move it yet,
\* let it finish its quantum"): the process is demoted but keeps the CPU.
AgeCurrentProcessKeepsCpu(s, settings) ==
  LET c == s.currentProcess IN
  IF c # NoProcess /\ s.processes[c].processingTime >= settings.agingInterval
                   /\ s.processes[c].priority < 3
  THEN LET np == s.processes[c].priority + 1 IN
       [s EXCEPT !.processes[c].priority = np,
                 !.processes[c].processingTime = 0,
                 !.consoleLog = Append(@, LogLine("aging current", c, np - 1, np))]
  ELSE s

\* The current-process check without its "priority < 3" guard.
AgeCurrentProcessUnguarded(s, settings) ==
  LET c == s.currentProcess IN
  IF c # NoProcess /\ s.processes[c].processingTime >= settings.agingInterval
  THEN LET np == s.processes[c].priority + 1 IN
       [s EXCEPT !.processes[c].priority = np,
                 !.processes[c].processingTime = 0,
                 !.readyQueues = IF np \in Levels THEN [@ EXCEPT ![np] = Append(@, c)] ELSE @,
                 !.currentProcess = NoProcess,
                 !.consoleLog = Append(@, LogLine("aging current", c, np - 1, np))]
  ELSE s

\* "Also check current process for aging"
AgeCurrentProcess(s, settings) ==
  LET c == s.currentProcess IN
  IF c # NoProcess /\ s.processes[c].processingTime >= settings.agingInterval
                   /\ s.processes[c].priority < 3
  THEN LET np == s.processes[c].priority + 1 IN
       [s EXCEPT !.processes[c].priority = np,
                 !.processes[c].processingTime = 0,
                 !.readyQueues[np] = Append(@, c),
                 !.currentProcess = NoProcess,
                 !.consoleLog = Append(@, LogLine("aging current", c, np - 1, np))]
  ELSE s

HandleAgingAndStarvation(s, settings) ==
  AgeCurrentProcess(AgeReadyQueues(s, settings), settings)

\* -------------------------------------------- handleRoundRobinScheduling
\* Selection that resets the counter with level 1's quantum whatever the level.
HandleRoundRobinSchedulingQuantum1(s, settings) ==
  IF s.currentProcess = NoProcess
  THEN IF \E l \in Levels : Len(s.readyQueues[l]) > 0
       THEN LET lvl == CHOOSE l \in Levels :
                         /\ Len(s.readyQueues[l]) > 0
                         /\ \A k \in 1..(l - 1) : Len(s.readyQueues[k]) = 0
            IN [s EXCEPT !.currentProcess = Head(s.readyQueues[lvl]),
                         !.readyQueues[lvl] = Tail(@),
                         !.quantumCounters[lvl] = settings.quantum[1],
                         !.consoleLog = Append(@, LogLine("selected", Head(s.readyQueues[lvl]),
                                                          lvl, settings.quantum[1]))]
       ELSE s
  ELSE s

\* Preemptive selection: a process waiting at a higher priority than the
\* running one takes the CPU at once, the running one going back to its queue.
HandleRoundRobinSchedulingPreemptive(s, settings) ==
  LET c == s.currentProcess
      higher == IF c = NoProcess THEN {}
                ELSE { l \in Levels : l < s.processes[c].priority /\ Len(s.readyQueues[l]) > 0 }
      s0 == IF higher # {}
            THEN [s EXCEPT !.readyQueues[s.processes[c].priority] = Append(@, c),
                           !.currentProcess = NoProcess]
            ELSE s
  IN
  IF s0.currentProcess = NoProcess
  THEN IF \E l \in Levels : Len(s0.readyQueues[l]) > 0
       THEN LET lvl == CHOOSE l \in Levels :
                         /\ Len(s0.readyQueues[l]) > 0
                         /\ \A k \in 1..(l - 1) : Len(s0.readyQueues[k]) = 0
            IN [s0 EXCEPT !.currentProcess = Head(s0.readyQueues[lvl]),
                          !.readyQueues[lvl] = Tail(@),
                          !.quantumCounters[lvl] = settings.quantum[lvl],
                          !.consoleLog = Append(@, LogLine("selected", Head(s0.readyQueues[lvl]),
                                                           lvl, settings.quantum[lvl]))]
       ELSE s0
  ELSE s0

HandleRoundRobinScheduling(s, settings) ==
  IF s.currentProcess = NoProcess
  THEN IF \E l \in Levels : Len(s.readyQueues[l]) > 0
       THEN LET lvl == CHOOSE l \in Levels :
                         /\ Len(s.readyQueues[l]) > 0
                         /\ \A k \in 1..(l - 1) : Len(s.readyQueues[k]) = 0
            IN [s EXCEPT !.currentProcess = Head(s.readyQueues[lvl]),
                         !.readyQueues[lvl] = Tail(@),
                         !.quantumCounters[lvl] = settings.quantum[lvl],
                         !.consoleLog = Append(@, LogLine("selected", Head(s.readyQueues[lvl]),
                                                          lvl, settings.quantum[lvl]))]
       ELSE s
  ELSE s

\* --------------------------------------------------- isSimulationComplete
IsSimulationComplete(s) ==
  /\ \A l \in Levels : Len(s.readyQueues[l]) = 0
  /\ s.currentProcess = NoProcess
  /\ Len(s.processes) > 0
  /\ \A i \in 1..Len(s.processes) : s.processes[i].remainingTime <= 0

LockIfComplete(s) ==
  IF IsSimulationComplete(s)
  THEN [s EXCEPT !.simulationStarted = FALSE,
                 !.consoleLog = Append(@, LogLine("complete", 0, s.currentTime, 0))]
  ELSE s

\* --------------------------------------------------------------- nextStep
\* The engine after each numbered step of nextStep, for a started run.
AfterArrivals(s) == HandleProcessArrivals([s EXCEPT !.currentTime = @ + 1])
\* Steps 2 to 4 in the order of the older nextStep, which updated the timing
\* of the processes before it handled the arrivals.
AfterExecuteBeforeArrivals(s) ==
  HandleProcessArrivals(
    UpdateWaitingTimes(ExecuteCurrent([s EXCEPT !.currentTime = @ + 1])))

AfterExecute(s) == UpdateWaitingTimes(ExecuteCurrent(AfterArrivals(s)))
AfterGantt(s) == UpdateGanttChart(AfterExecute(s))
AfterRelease(s) == CompleteOrExpire(AfterGantt(s))
AfterAging(s, settings) == HandleAgingAndStarvation(AfterRelease(s), settings)
\* Steps 8 and 9 swapped: selection before the aging pass.
AfterSelectionThenAging(s, settings) ==
  HandleAgingAndStarvation(HandleRoundRobinScheduling(AfterRelease(s), settings),
                           settings)

AfterSelection(s, settings) == HandleRoundRobinScheduling(AfterAging(s, settings), settings)

\* nextStep with updateGanttChart moved behind the selection step.
NextStepEngineRecordsLast(s, settings) ==
  IF ~s.simulationStarted THEN s
  ELSE LockIfComplete(
         UpdateGanttChart(
           HandleRoundRobinScheduling(
             HandleAgingAndStarvation(CompleteOrExpire(AfterExecute(s)), settings),
             settings)))

\* nextStep without its first line, "if (!simulationStarted) return".
NextStepEngineUnguarded(s, settings) ==
  LockIfComplete(AfterSelection(s, settings))

\* nextStep with "currentTime++" moved above the guard.
NextStepEngineCountsFirst(s, settings) ==
  IF ~s.simulationStarted THEN [s EXCEPT !.currentTime = @ + 1]
  ELSE LockIfComplete(AfterSelection(s, settings))

NextStepEngine(s, settings) ==
  IF ~s.simulationStarted THEN s
  ELSE LockIfComplete(AfterSelection(s, settings))

\* ---------------------------------------------------------------- actions
SetEngine(s) ==
  /\ processes' = s.processes
  /\ readyQueues' = s.readyQueues
  /\ simulationStarted' = s.simulationStarted
  /\ currentTime' = s.currentTime
  /\ currentProcess' = s.currentProcess
  /\ quantumCounters' = s.quantumCounters
  /\ arrivedProcesses' = s.arrivedProcesses
  /\ ganttBlocks' = s.ganttBlocks
  /\ lastProcessTime' = s.lastProcessTime
  /\ consoleLog' = s.consoleLog

Init ==
  /\ processes = ClearedEngine.processes
  /\ readyQueues = ClearedEngine.readyQueues
  /\ simulationStarted = ClearedEngine.simulationStarted
  /\ currentTime = ClearedEngine.currentTime
  /\ currentProcess = ClearedEngine.currentProcess
  /\ quantumCounters = ClearedEngine.quantumCounters
  /\ arrivedProcesses = ClearedEngine.arrivedProcesses
  /\ ganttBlocks = ClearedEngine.ganttBlocks
  /\ lastProcessTime = ClearedEngine.lastProcessTime
  /\ consoleLog = ClearedEngine.consoleLog

\* The Start button, with the table as it stands when it is pressed.
StartSimulation ==
  /\ ~simulationStarted
  /\ \E table \in (IF processes = <<>> THEN Tables ELSE RestartTables) :
        SetEngine(StartEngine(table))

\* The Start button while a run is on: "if (simulationStarted) return".
StartIgnored ==
  /\ simulationStarted
  /\ UNCHANGED vars

\* The Next Step button of a started run.  getSettings reads the five form
\* fields afresh on every call, so each call gets whatever they hold then.
NextStep ==
  /\ simulationStarted
  /\ currentTime < MaxTime
  /\ \E settings \in SettingsDomain : SetEngine(NextStepEngine(Engine, settings))

\* Next Step with no run started: "if (!simulationStarted) return".
NextStepIgnored ==
  /\ ~simulationStarted
  /\ UNCHANGED vars

\* resetSimulation as it was before arrivedProcesses and quantumCounters were
\* added to it: the two keep what the run left in them.
ResetSimulationKeepsArrived ==
  /\ SetEngine([ClearedEngine EXCEPT !.arrivedProcesses = arrivedProcesses,
                                     !.quantumCounters = quantumCounters])

\* The Reset button.
ResetSimulation ==
  /\ SetEngine(ClearedEngine)

Next ==
  \/ StartSimulation
  \/ StartIgnored
  \/ NextStep
  \/ NextStepIgnored
  \/ ResetSimulation

Spec == Init /\ [][Next]_vars

\* ============================================================ properties
Range(q) == { q[i] : i \in 1..Len(q) }

AllQueued == readyQueues[1] \o readyQueues[2] \o readyQueues[3]

Logged(ev) == { consoleLog[i] : i \in { k \in 1..Len(consoleLog) : consoleLog[k].ev = ev } }

\* An accepted call of nextStep: the run is started and the clock advances.
IsTick == simulationStarted /\ currentTime' = currentTime + 1

\* Step 6 of nextStep has released p: it has run and has nothing left to run.
Completed(p) ==
  /\ processes[p].remainingTime <= 0
  /\ processes[p].remainingTime < processes[p].burstTime

\* Every registered process has a positive burst time.
PositiveBursts == \A p \in 1..Len(processes) : processes[p].burstTime > 0

RECURSIVE SumDurations(_, _)
SumDurations(blocks, i) ==
  IF i > Len(blocks) THEN 0
  ELSE (blocks[i].end - blocks[i].start) + SumDurations(blocks, i + 1)

\* C1: after any number of ticks the timeline blocks are non-empty intervals,
\* each starting where the one before it ends, the first starting at 0 and the
\* last ending at currentTime, so their durations add up to currentTime.
C1_TimelineSpansClock ==
  LET n == Len(ganttBlocks) IN
  /\ \A i \in 1..n : ganttBlocks[i].start < ganttBlocks[i].end
  /\ \A i \in 1..(n - 1) : ganttBlocks[i].end = ganttBlocks[i + 1].start
  /\ n > 0 => ganttBlocks[1].start = 0 /\ ganttBlocks[n].end = currentTime
  /\ n = 0 => currentTime = 0
  /\ SumDurations(ganttBlocks, 1) = currentTime

\* C1 witness: a timeline of an idle block, a process block and an idle block.
C1_Witness ==
  /\ PositiveBursts
  /\ Len(ganttBlocks) >= 3
  /\ ganttBlocks[1].isIdle /\ ~ganttBlocks[2].isIdle /\ ganttBlocks[3].isIdle
  /\ ganttBlocks[2].end - ganttBlocks[2].start = 2
  /\ currentTime >= 4

\* C2: every process is in at most one place: at most once in the three ready
\* queues together, the running process in no queue, and a completed process
\* neither in a queue nor running.
C2_OnePlacePerProcess ==
  /\ \A i, j \in 1..Len(AllQueued) : i # j => AllQueued[i] # AllQueued[j]
  /\ Range(AllQueued) \subseteq 1..Len(processes)
  /\ currentProcess \in 0..Len(processes)
  /\ currentProcess \notin Range(AllQueued)
  /\ \A p \in 1..Len(processes) :
        Completed(p) => p \notin Range(AllQueued) /\ currentProcess # p
  /\ \A e \in Logged("completed") : e.p \notin Range(AllQueued) /\ currentProcess # e.p

\* C2 witness: one process completed, one running, and the run goes on; and
\* the other requeued one before that.
C2_Witness ==
  /\ PositiveBursts
  /\ Len(processes) = 2
  /\ Completed(1)
  /\ currentProcess = 2
  /\ Logged("completed") # {}
  /\ Logged("selected") # {}

\* C3: every process's priority is 1, 2 or 3 in every state.
C3_PriorityInRange ==
  \A p \in 1..Len(processes) : processes[p].priority \in {1, 2, 3}

\* C3 witness: in one tick a process was promoted to level 1 by starvation and
\* the running process was demoted to level 3 by aging.
C3_Witness ==
  /\ PositiveBursts
  /\ \E e \in Logged("starvation") : e.b = 1 /\ processes[e.p].priority = 1
  /\ \E e \in Logged("aging current") : e.b = 3

\* Where x stands in queue q (x is in q).
Pos(q, x) == CHOOSE i \in 1..Len(q) : q[i] = x

Last(q) == q[Len(q)]

\* p has arrived and is neither running nor in a ready queue.
ArrivedAndOffCpu(p) ==
  /\ processes[p].name \in arrivedProcesses
  /\ currentProcess # p
  /\ p \notin Range(AllQueued)

\* C4: in a tick the process that was running at its start loses exactly one
\* unit of remainingTime, no other process's remainingTime changes, and no
\* remainingTime is below 0 afterwards.
C4_RemainingTimeStep ==
  [][IsTick =>
       /\ \A p \in 1..Len(processes) :
             processes'[p].remainingTime =
               processes[p].remainingTime - (IF p = currentProcess THEN 1 ELSE 0)
       /\ \A p \in 1..Len(processes) : processes'[p].remainingTime >= 0]_vars

\* C5: at the end of every tick remainingTime = 0 exactly for the processes
\* that have arrived and are neither running nor queued, and a process whose
\* remainingTime reaches 0 in the tick is off the CPU and in no queue.
C5_ZeroIffCompleted ==
  [][IsTick =>
       \A p \in 1..Len(processes) :
         /\ (processes'[p].remainingTime = 0) <=> ArrivedAndOffCpu(p)'
         /\ (processes[p].remainingTime # 0 /\ processes'[p].remainingTime = 0)
               => currentProcess' # p /\ p \notin Range(AllQueued)']_vars

\* The settings with the quantum fields held fixed: the steps of a tick before
\* selection read only the two intervals.
IntervalSettings ==
  { s \in SettingsDomain : s.quantum = (CHOOSE q \in QuantumFields : TRUE) }

\* The lowest-numbered level whose queue is not empty (0 if all are empty).
FirstReadyLevel(queues) ==
  IF queues[1] # <<>> THEN 1 ELSE IF queues[2] # <<>> THEN 2
  ELSE IF queues[3] # <<>> THEN 3 ELSE 0

\* C6: whatever the settings, the selection step of a tick changes nothing when
\* a process is running (or no queue holds one); otherwise it takes the head of
\* the lowest-numbered non-empty queue, makes it the running process and sets
\* that level's quantum counter to the level's quantum, and nothing else.
C6_Selection ==
  simulationStarted =>
    \A intervals \in IntervalSettings :
      LET pre == AfterAging(Engine, intervals)
          lvl == FirstReadyLevel(pre.readyQueues)
      IN
      \A quantum \in QuantumFields :
        LET settings == [intervals EXCEPT !.quantum = quantum]
            post == HandleRoundRobinScheduling(pre, settings)
        IN
        /\ post.processes = pre.processes
        /\ IF pre.currentProcess # NoProcess \/ lvl = 0
           THEN /\ post.currentProcess = pre.currentProcess
                /\ post.readyQueues = pre.readyQueues
                /\ post.quantumCounters = pre.quantumCounters
           ELSE /\ post.currentProcess = pre.readyQueues[lvl][1]
                /\ post.readyQueues[lvl] =
                      SubSeq(pre.readyQueues[lvl], 2, Len(pre.readyQueues[lvl]))
                /\ \A l \in Levels \ {lvl} :
                      /\ post.readyQueues[l] = pre.readyQueues[l]
                      /\ post.quantumCounters[l] = pre.quantumCounters[l]
                /\ post.quantumCounters[lvl] = settings.quantum[lvl]

\* C6 witness: a tick selected the head of level 2 with a quantum of 2 while
\* level 1 was empty and a process stayed in level 3's queue.
C6_Witness ==
  /\ PositiveBursts
  /\ \E e \in Logged("selected") : e.a = 2 /\ e.b = 2 /\ currentProcess = e.p
  /\ quantumCounters[2] = 2
  /\ readyQueues[3] # <<>>

C8_QuantumBoundsRun ==
  [][IsTick /\ currentProcess # NoProcess =>
       LET c == currentProcess
           lvl == processes[c].priority
           e == AfterGantt(Engine)
           r == CompleteOrExpire(e)
       IN
       /\ (e.processes[c].remainingTime > 0 /\ e.quantumCounters[lvl] <= 0)
            => /\ r.currentProcess = NoProcess
               /\ r.readyQueues[lvl] = Append(e.readyQueues[lvl], c)
       /\ quantumCounters[lvl] >= 1]_vars

C10_StarvationPromotes ==
  simulationStarted =>
    LET r == AfterRelease(Engine) IN
    \A settings \in IntervalSettings :
      LET a == HandleAgingAndStarvation(r, settings) IN
      /\ \A l \in Levels : \A p \in Range(r.readyQueues[l]) :
            (r.processes[p].waitingTime >= settings.starvationInterval
               /\ r.processes[p].priority > 1)
            => LET np == r.processes[p].priority - 1 IN
               /\ a.processes[p].priority = np
               /\ a.processes[p].waitingTime = 0
               /\ p \in Range(a.readyQueues[np])
               /\ \A l2 \in Levels \ {np} : p \notin Range(a.readyQueues[l2])
               /\ \A q \in Range(r.readyQueues[np]) \cap Range(a.readyQueues[np]) :
                     Pos(a.readyQueues[np], q) < Pos(a.readyQueues[np], p)
      /\ r.currentProcess # NoProcess =>
            a.processes[r.currentProcess].priority >= r.processes[r.currentProcess].priority

\* C10 witness: in one tick the running level-2 process was requeued on quantum
\* expiry, a process was promoted from level 3 to level 2 by starvation, and
\* selection took the requeued one: the promoted one waits alone in level 2's
\* queue with waitingTime 0, having been placed behind it.
C10_Witness ==
  \E e \in Logged("starvation") :
    /\ PositiveBursts
    /\ e.a = 3 /\ e.b = 2
    /\ processes[e.p].priority = 2
    /\ processes[e.p].waitingTime = 0
    /\ readyQueues[2] = <<e.p>>
    /\ \E x \in Logged("quantum expired") : x.a = 2 /\ currentProcess = x.p
    /\ \E x \in Logged("selected") : x.a = 2

\* The console.log lines of the last tick that move a process down a level.
AgingLines == Logged("aging") \cup Logged("aging current")

\* C11: whatever the settings, a ready process that meets the starvation test
\* and the aging test when the aging pass of a tick begins is promoted and not
\* demoted (its processingTime is not reset); and no process is both promoted
\* by starvation and demoted by aging in one tick.
C11_StarvationShieldsFromAging ==
  /\ simulationStarted =>
       LET r == AfterRelease(Engine) IN
       \A settings \in IntervalSettings :
         LET a == HandleAgingAndStarvation(r, settings) IN
         \A l \in Levels : \A p \in Range(r.readyQueues[l]) :
           (/\ r.processes[p].waitingTime >= settings.starvationInterval
            /\ r.processes[p].priority > 1
            /\ r.processes[p].processingTime >= settings.agingInterval)
           => /\ a.processes[p].priority = r.processes[p].priority - 1
              /\ a.processes[p].processingTime = r.processes[p].processingTime
  /\ \A e \in Logged("starvation") : \A x \in AgingLines : x.p # e.p

\* The processes with arrival time t and priority l, in the order of the table.
ArrivingAt(t, l) ==
  SelectSeq([i \in 1..Len(processes) |-> i],
            LAMBDA i : processes[i].arrivalTime = t /\ processes[i].priority = l)

ValidRow(row) ==
  row = BlankRow \/ (row.at >= 0 /\ row.bt > 0 /\ row.prio \in Levels)

ValidRows(i) == { row \in RowDomain(i) : ValidRow(row) }

ValidTables == ValidRows(1) \X ValidRows(2)

ValidRestartTables == ValidRows(1) \X {BlankRow}

\* Settings whose five fields are all positive; the quantum fields are varied
\* together as in QuantumFields, over the positive values.
ValidQuantumFields ==
  { [l \in Levels |-> 1 + ((l + k) % 2)] : k \in 0..1 }

ValidSettings ==
  [quantum : ValidQuantumFields,
   agingInterval : IntervalValues \ {0},
   starvationInterval : IntervalValues \ {0}]

\* Start pressed with a well-formed table.
StartValid ==
  /\ ~simulationStarted
  /\ \E table \in (IF processes = <<>> THEN ValidTables ELSE ValidRestartTables) :
        SetEngine(StartEngine(table))

\* Next Step pressed while the form holds well-formed settings.
NextStepValid ==
  /\ simulationStarted
  /\ currentTime < MaxTime
  /\ \E settings \in ValidSettings : SetEngine(NextStepEngine(Engine, settings))

LiveNext ==
  \/ StartValid
  \/ NextStepValid

\* What every accepted call of nextStep does first: "currentTime++".
TickStep ==
  /\ simulationStarted
  /\ currentTime < MaxTime
  /\ currentTime' = currentTime + 1

\* The user keeps pressing Next Step while a run is on: the steps of LiveNext
\* that advance the clock are exactly those of NextStepValid.
LiveSpec == Init /\ [][LiveNext]_vars /\ WF_currentTime(TickStep)

\* The run has been locked as complete with every process finished.
RunComplete ==
  /\ ~simulationStarted
  /\ processes # <<>>
  /\ \A p \in 1..Len(processes) : processes[p].remainingTime <= 0

C14_CompleteWhenAllDone ==
  [][/\ IsTick =>
          /\ ~simulationStarted' <=>
                /\ \A l \in Levels : readyQueues'[l] = <<>>
                /\ currentProcess' = NoProcess
                /\ \A p \in 1..Len(processes') : processes'[p].remainingTime <= 0
          /\ (/\ \E p \in 1..Len(processes) : processes[p].remainingTime > 0
              /\ \A p \in 1..Len(processes') : processes'[p].remainingTime <= 0)
               => ~simulationStarted'
     /\ RunComplete =>
          \/ RunComplete' /\ UNCHANGED vars
          \/ currentTime' = 0 /\ ganttBlocks' = <<>>]_vars

\* C15: whatever the settings, nextStep called while no run is started
\* (before Start, or after the run was locked as complete) returns the engine
\* as it was: clock, processes, queues, running process, quantum counters,
\* arrived set and timeline.
C15_RejectedTickChangesNothing ==
  ~simulationStarted =>
    \A settings \in SettingsDomain : NextStepEngine(Engine, settings) = Engine

\* C15 witness: a run of two processes that has been locked as complete, with
\* a timeline, in which Next Step has nothing to do.
C15_Witness ==
  /\ PositiveBursts
  /\ RunComplete
  /\ Len(processes) = 2
  /\ Logged("complete") # {}
  /\ Len(ganttBlocks) >= 3
  /\ ENABLED NextStepIgnored

\* C16: nextStep called while no run is started tells its caller so.  The
\* function returns no value and throws nothing on any path, and it raises no
\* alert; what a call can tell the outside is what it writes with console.log,
\* so the statement is that the rejected call writes a line.
C16_RejectedTickIsSignalled ==
  ~simulationStarted =>
    \A settings \in SettingsDomain :
      NextStepEngine(Engine, settings).consoleLog # <<>>

\* C17 as stated: after a tick the last timeline block belongs to the process
\* that is running once the tick's completion, expiry, aging and selection
\* steps are done, or is Idle if none is.
C17_RecordedAfterSelection ==
  ganttBlocks # <<>> =>
    IF currentProcess # NoProcess
    THEN /\ ~Last(ganttBlocks).isIdle
         /\ Last(ganttBlocks).name = processes[currentProcess].name
    ELSE Last(ganttBlocks).isIdle

\* C17, amended: whatever the settings, the timeline a tick leaves is the one
\* written right after the execute and waiting steps, before completion,
\* expiry, aging and selection: its last block ends at the new currentTime,
\* covers the elapsed slot and belongs to the process that was running when
\* the tick began, or is Idle if none was.
C17_RecordedBeforeRelease ==
  simulationStarted =>
    \A settings \in SettingsDomain :
      LET n == NextStepEngine(Engine, settings)
          b == Last(n.ganttBlocks)
      IN
      /\ n.ganttBlocks = UpdateGanttChart(AfterExecute(Engine)).ganttBlocks
      /\ b.end = currentTime + 1
      /\ b.start <= currentTime
      /\ IF currentProcess # NoProcess
         THEN ~b.isIdle /\ b.name = processes[currentProcess].name
         ELSE b.isIdle

\* C17 witness: a tick in which the running process completed and the other
\* process was selected: the last block is the completed one's.
C17_Witness ==
  \E e \in Logged("completed") :
    /\ PositiveBursts
    /\ currentProcess \notin {NoProcess, e.p}
    /\ ~Last(ganttBlocks).isIdle
    /\ Last(ganttBlocks).name = processes[e.p].name
    /\ Last(ganttBlocks).end = currentTime

\* The identity the timeline gives to the slot [t-1, t).
OwnerAt(blocks, t) ==
  LET i == CHOOSE k \in 1..Len(blocks) : blocks[k].start < t /\ t <= blocks[k].end
  IN IF blocks[i].isIdle THEN "Idle" ELSE blocks[i].name

\* The processes whose remainingTime the step takes down by one.
Decremented ==
  { p \in 1..Len(processes) :
      processes'[p].remainingTime = processes[p].remainingTime - 1 }

\* C18: a tick gives the slot it covers to the process whose remainingTime it
\* decremented, or to Idle if it decremented none, and leaves the owners of
\* the earlier slots as they were; in particular the first tick of a run with
\* a process arriving at 1 records [0,1) as Idle and ends with a process that
\* arrived in it running.
C18_SlotBelongsToExecuted ==
  [][IsTick =>
       /\ \A t \in 1..currentTime :
             OwnerAt(ganttBlocks', t) = OwnerAt(ganttBlocks, t)
       /\ \A p \in Decremented :
             OwnerAt(ganttBlocks', currentTime') = processes[p].name
       /\ Decremented = {} => OwnerAt(ganttBlocks', currentTime') = "Idle"
       /\ (currentTime = 0 /\ \E p \in 1..Len(processes) : processes[p].arrivalTime = 1)
            => /\ ganttBlocks' = <<Block("Idle", 0, 1, TRUE)>>
               /\ currentProcess' # NoProcess
               /\ processes[currentProcess'].arrivalTime = 1]_vars

\* C18 witness: after the first tick [0,1) is Idle and the process that
\* arrived in it has been selected and is running.
C18_Witness ==
  /\ PositiveBursts
  /\ currentTime = 1
  /\ ganttBlocks = <<Block("Idle", 0, 1, TRUE)>>
  /\ \E e \in Logged("arriving") : \E x \in Logged("selected") :
        e.p = x.p /\ currentProcess = e.p

\* The identity of a timeline block: its process's name, or Idle.
Identity(block) == IF block.isIdle THEN "Idle" ELSE block.name

\* C19: no two consecutive timeline blocks have the same identity.
C19_NeighboursDiffer ==
  \A i \in 1..(Len(ganttBlocks) - 1) :
    Identity(ganttBlocks[i]) # Identity(ganttBlocks[i + 1])

\* C19 witness: a timeline in which an idle block and a process block have
\* both been extended over a second slot.
C19_Witness ==
  /\ PositiveBursts
  /\ \E i, j \in 1..Len(ganttBlocks) :
        /\ ganttBlocks[i].isIdle /\ ganttBlocks[i].end - ganttBlocks[i].start >= 2
        /\ ~ganttBlocks[j].isIdle /\ ganttBlocks[j].end - ganttBlocks[j].start >= 2

\* C20: a process that has arrived and is neither running nor queued when a
\* tick begins (it has completed) comes out of the tick with all its fields as
\* they were, still in processes at its place, in no queue and not running.
C20_CompletedIsFrozen ==
  [][IsTick =>
       /\ Len(processes') = Len(processes)
       /\ \A p \in 1..Len(processes) :
             ArrivedAndOffCpu(p) =>
               /\ processes'[p] = processes[p]
               /\ ArrivedAndOffCpu(p)']_vars

\* C20 witness: the second process executed in a tick that began with the
\* first one already completed.
C20_Witness ==
  /\ PositiveBursts
  /\ Len(processes) = 2
  /\ ArrivedAndOffCpu(1) /\ processes[1].remainingTime = 0
  /\ \A e \in Logged("completed") : e.p # 1
  /\ \E e \in Logged("executing") : e.p = 2

\* A call of startSimulation that starts a run.
IsStart == ~simulationStarted /\ simulationStarted'

\* C21: a call of startSimulation that starts a run, whatever an earlier run
\* left behind, gives currentTime 0, three empty queues, no running process,
\* an empty timeline, no process marked arrived, and every process with
\* remainingTime = burstTime, processingTime 0 and waitingTime 0.
C21_StartYieldsFreshRun ==
  [][IsStart =>
       /\ currentTime' = 0
       /\ \A l \in Levels : readyQueues'[l] = <<>>
       /\ currentProcess' = NoProcess
       /\ ganttBlocks' = <<>>
       /\ arrivedProcesses' = {}
       /\ processes' # <<>>
       /\ \A p \in 1..Len(processes') :
             /\ processes'[p].remainingTime = processes'[p].burstTime
             /\ processes'[p].processingTime = 0
             /\ processes'[p].waitingTime = 0]_vars

\* C21 witness: a run of two processes has just been started.
C21_Witness ==
  /\ simulationStarted
  /\ Logged("started") # {}
  /\ currentTime = 0
  /\ Len(processes) = 2
  /\ processes[1].burstTime = 2 /\ processes[1].remainingTime = 2
  /\ processes[2].burstTime = 1 /\ processes[2].remainingTime = 1

\* C22: startSimulation starts no run on input that breaks a rule of the
\* specification: a run that starts holds only processes with a non-empty
\* name, distinct names, arrivalTime >= 0, burstTime > 0 and a priority of
\* 1..3.  (The settings are not read by startSimulation at all.)
C22_StartRejectsInvalidInput ==
  [][IsStart =>
       /\ \A p \in 1..Len(processes') :
             /\ processes'[p].name # ""
             /\ processes'[p].arrivalTime >= 0
             /\ processes'[p].burstTime > 0
             /\ processes'[p].priority \in Levels
       /\ \A p, q \in 1..Len(processes') :
             p # q => processes'[p].name # processes'[q].name]_vars

\* C23: a call of startSimulation that rejects its table leaves nothing of
\* the table behind: processes is empty, as are the queues and the timeline,
\* the clock is 0 and no process is running.
C23_RejectedStartLeavesNothing ==
  [][~simulationStarted =>
       \A table \in Tables :
         (SetEngine(StartEngine(table)) /\ ~simulationStarted')
         => /\ processes' = <<>>
            /\ \A l \in Levels : readyQueues'[l] = <<>>
            /\ currentTime' = 0
            /\ currentProcess' = NoProcess
            /\ ganttBlocks' = <<>>]_vars

C25_ClockStep ==
  /\ Logged("started") # {} => simulationStarted /\ currentTime = 0
  /\ currentTime >= 0
  /\ \A settings \in SettingsDomain :
        NextStepEngine(Engine, settings).currentTime =
          currentTime + (IF simulationStarted THEN 1 ELSE 0)

\* C25 witness: a run that was locked as complete at the end of its third
\* tick, where a further Next Step is rejected.
C25_Witness ==
  /\ PositiveBursts
  /\ RunComplete
  /\ currentTime = 3
  /\ Logged("complete") # {}
  /\ ENABLED NextStepIgnored

\* C26: the ticks of a run use the settings the run was started with, not
\* what the settings form holds when Next Step is pressed.  The engine keeps
\* no copy of the settings, so the statement is that the outcome of a tick of
\* a started run is the same whatever the form holds at that moment; it is
\* stated for processes with positive burst times and for forms holding
\* positive values.
C26_TickIgnoresFormChanges ==
  (simulationStarted /\ PositiveBursts) =>
    \A s1, s2 \in ValidSettings :
      NextStepEngine(Engine, s1) = NextStepEngine(Engine, s2)

\* C27: scheduling is preemptive by priority: a process that becomes ready at
\* a higher priority than the running process takes the CPU in the same tick,
\* so after every call no process waits in the queue of a level above the
\* running process's level.
C27_HigherPriorityPreempts ==
  currentProcess # NoProcess =>
    \A l \in 1..(processes[currentProcess].priority - 1) : readyQueues[l] = <<>>

\* C28: resetSimulation can be called in every state, and a call leaves
\* currentTime 0, no processes, three empty queues, no running process, an
\* empty timeline, quantum counters 0, no name marked arrived and the run not
\* started, so that nextStep, whatever the settings, changes nothing.
C28_ResetRestoresInitial ==
  [][/\ ENABLED ResetSimulation
     /\ ResetSimulation =>
          /\ currentTime' = 0
          /\ processes' = <<>>
          /\ readyQueues' = <<<<>>, <<>>, <<>>>>
          /\ currentProcess' = NoProcess
          /\ ganttBlocks' = <<>>
          /\ lastProcessTime' = 0
          /\ quantumCounters' = <<0, 0, 0>>
          /\ arrivedProcesses' = {}
          /\ ~simulationStarted'
          /\ \A settings \in SettingsDomain :
                NextStepEngine(Engine, settings)' = Engine']_vars

\* C28 witness: a run in its third tick, with a process running, another
\* queued and a timeline, in which Reset can be pressed.
C28_Witness ==
  /\ PositiveBursts
  /\ simulationStarted
  /\ currentTime = 3
  /\ currentProcess # NoProcess
  /\ AllQueued # <<>>
  /\ Len(ganttBlocks) >= 2
  /\ quantumCounters # <<0, 0, 0>>
  /\ ENABLED ResetSimulation

\* The processes the engine s has logged as promoted by starvation.
Promoted(s) ==
  { s.consoleLog[i].p :
      i \in { k \in 1..Len(s.consoleLog) : s.consoleLog[k].ev = "starvation" } }

\* C29: whatever the settings, a process that is in a ready queue when the
\* aging pass of a tick begins, with processingTime >= agingInterval and
\* priority < 3, and that the pass does not promote by starvation, leaves the
\* pass exactly one level lower, with processingTime 0, in the queue of its
\* new level behind every process that was in that queue before the pass; a
\* ready process at priority 3 is not demoted and keeps its processingTime.
C29_AgingDemotesReady ==
  simulationStarted =>
    LET r == AfterRelease(Engine) IN
    \A settings \in IntervalSettings :
      LET a == HandleAgingAndStarvation(r, settings) IN
      \A l \in Levels : \A p \in Range(r.readyQueues[l]) :
        LET pr == r.processes[p] IN
        /\ (/\ pr.processingTime >= settings.agingInterval
            /\ pr.priority < 3
            /\ p \notin Promoted(a))
           => LET np == pr.priority + 1 IN
              /\ a.processes[p].priority = np
              /\ a.processes[p].processingTime = 0
              /\ p \in Range(a.readyQueues[np])
              /\ \A l2 \in Levels \ {np} : p \notin Range(a.readyQueues[l2])
              /\ \A q \in Range(r.readyQueues[np]) \cap Range(a.readyQueues[np]) :
                    Pos(a.readyQueues[np], q) < Pos(a.readyQueues[np], p)
        /\ pr.priority = 3
           => /\ a.processes[p].priority \in {2, 3}
              /\ a.processes[p].processingTime = pr.processingTime

C31_OneLevelPerTick ==
  [][IsTick =>
       \A p \in 1..Len(processes) :
         processes'[p].priority - processes[p].priority \in {-1, 0, 1}]_vars

\* The lines of the last tick's log that move process p to another level.
MoveLines(p) ==
  { i \in 1..Len(consoleLog) :
      /\ consoleLog[i].ev \in {"starvation", "aging", "aging current"}
      /\ consoleLog[i].p = p }

\* C32: in one tick a process is moved between levels at most once; in
\* particular it is not demoted by aging and then promoted back by starvation
\* when the pass reaches the queue it was demoted into.
C32_MovedAtMostOnce ==
  \A p \in 1..Len(processes) : Cardinality(MoveLines(p)) <= 1

\* Every process in the queue of level l has priority l.
QueuesMatchPriority ==
  \A l \in Levels : \A p \in Range(readyQueues[l]) : processes[p].priority = l

\* C33: after every step each process in the queue of level L has priority
\* L.  A process selected in a tick has the priority of the level it was
\* selected from; a process that stays running through a tick without being
\* selected anew keeps its priority; and the execute step of a tick takes one
\* from the quantum counter of the running process's level and from no other.
\* So the counter decremented is that of the level of selection.
C33_LevelsAgree ==
  [][/\ QueuesMatchPriority'
     /\ IsTick =>
          /\ \A e \in Logged("selected")' :
                currentProcess' = e.p /\ processes'[e.p].priority = e.a
          /\ currentProcess # NoProcess =>
                LET c == currentProcess
                    lvl == processes[c].priority
                    x == AfterExecute(Engine)
                IN
                /\ x.quantumCounters[lvl] = quantumCounters[lvl] - 1
                /\ \A l \in Levels \ {lvl} : x.quantumCounters[l] = quantumCounters[l]
                /\ x.processes[c].priority = lvl
                /\ (currentProcess' = c /\ Logged("selected")' = {})
                     => processes'[c].priority = lvl]_vars

\* C33 witness: a process selected from level 2 has executed a tick at
\* priority 2 with quantum to spare and is still running, while a process
\* promoted in this tick sits in level 1's queue.
C33_Witness ==
  /\ PositiveBursts
  /\ currentProcess # NoProcess
  /\ processes[currentProcess].priority = 2
  /\ \E x \in Logged("executing") : x.p = currentProcess /\ x.b >= 1
  /\ Logged("selected") = {}
  /\ \E e \in Logged("starvation") : e.b = 1 /\ e.p \in Range(readyQueues[1])

\* C34: whatever the settings, at the end of a tick every process that sits
\* in the queue of level 2 or 3 has a waitingTime below the starvationInterval
\* the tick was run with.
C34_BoundedWaiting ==
  simulationStarted =>
    \A settings \in ValidSettings :
      LET n == NextStepEngine(Engine, settings) IN
      \A l \in {2, 3} : \A p \in Range(n.readyQueues[l]) :
        n.processes[p].waitingTime < settings.starvationInterval

\* The total length of the timeline blocks that carry the process name.
RECURSIVE BusyTime(_, _, _)
BusyTime(blocks, name, i) ==
  IF i > Len(blocks) THEN 0
  ELSE (IF ~blocks[i].isIdle /\ blocks[i].name = name
        THEN blocks[i].end - blocks[i].start ELSE 0)
       + BusyTime(blocks, name, i + 1)

\* The total length of the timeline blocks that are not idle.
RECURSIVE TotalBusy(_, _)
TotalBusy(blocks, i) ==
  IF i > Len(blocks) THEN 0
  ELSE (IF blocks[i].isIdle THEN 0 ELSE blocks[i].end - blocks[i].start)
       + TotalBusy(blocks, i + 1)

RECURSIVE SumBursts(_, _)
SumBursts(procs, i) ==
  IF i > Len(procs) THEN 0 ELSE procs[i].burstTime + SumBursts(procs, i + 1)

\* C35: after any number of ticks the blocks carrying a process's name add
\* up to burstTime - remainingTime, for every process; and when the run is
\* complete the busy time of the timeline is the sum of the burst times.
C35_TimelineAccountsForWork ==
  /\ \A p \in 1..Len(processes) :
        BusyTime(ganttBlocks, processes[p].name, 1) =
          processes[p].burstTime - processes[p].remainingTime
  /\ RunComplete => TotalBusy(ganttBlocks, 1) = SumBursts(processes, 1)

\* C36: after every call, if a ready queue holds a process then some
\* process is running; and whatever the settings, the tick that follows ends
\* that way too.
C36_WorkConserving ==
  /\ AllQueued # <<>> => currentProcess # NoProcess
  /\ simulationStarted =>
       \A settings \in IntervalSettings :
         LET n == NextStepEngine(Engine, settings) IN
         (\E l \in Levels : n.readyQueues[l] # <<>>) => n.currentProcess # NoProcess

\* C36 witness: in one tick the running process was demoted by aging and
\* released the CPU, and selection gave the CPU to a process at once, the
\* other one waiting in a queue.
C36_Witness ==
  /\ PositiveBursts
  /\ Logged("aging current") # {}
  /\ Logged("selected") # {}
  /\ currentProcess # NoProcess
  /\ AllQueued # <<>>

\* C37: whatever the settings, two processes that share a ready queue when
\* the aging pass of a tick begins and share a queue when it ends (both
\* stayed, or both were moved to the same level) are in the same order in
\* it: the one nearer the head before is nearer the head after.
C37_MovesKeepOrder ==
  simulationStarted =>
    LET r == AfterRelease(Engine) IN
    \A settings \in ValidSettings :
      LET a == HandleAgingAndStarvation(r, settings) IN
      \A l, l2 \in Levels :
        \A p, q \in Range(r.readyQueues[l]) \cap Range(a.readyQueues[l2]) :
          Pos(r.readyQueues[l], p) < Pos(r.readyQueues[l], q)
          => Pos(a.readyQueues[l2], p) < Pos(a.readyQueues[l2], q)

\* ------------------------------------------------- runs of three processes
\* Tables of three well-formed rows that arrive in the first three ticks.
ThreeRowNames == <<"P1", "P2", "P3">>

ThreeRows(i) ==
  [name : {ThreeRowNames[i]}, at : IF i = 3 THEN {2, 3} ELSE {1, 2},
   bt : {1, 2}, prio : Levels]

ThreeTables == ThreeRows(1) \X ThreeRows(2) \X ThreeRows(3)

\* Start pressed with a table of three rows (one row over an earlier run).
StartThree ==
  /\ ~simulationStarted
  /\ \E table \in (IF processes = <<>> THEN ThreeTables ELSE ValidRestartTables) :
        SetEngine(StartEngine(table))

ThreeNext ==
  \/ StartThree
  \/ NextStepValid

ThreeSpec == Init /\ [][ThreeNext]_vars

\* The processes the engine s has logged as moved into level l.
MovedInto(s, l) ==
  { s.consoleLog[i].p :
      i \in { k \in 1..Len(s.consoleLog) :
                /\ s.consoleLog[k].ev \in {"starvation", "aging", "aging current"}
                /\ s.consoleLog[k].b = l } }

\* C38: under any well-formed settings, in a tick in which the running process of
\* level L is requeued on quantum expiry and a process arrives into level L,
\* the arriving one is ahead of the requeued one in level L's queue after step
\* 7 and, when both are still there, after the aging pass; and every other
\* process that the pass moves into level L is behind each of the two that is
\* still in the queue.
C38_TailOrder ==
  simulationStarted =>
    LET r == AfterRelease(Engine)
        c == currentProcess
    IN
    \A L \in Levels :
      (c # NoProcess /\ c \in Range(r.readyQueues[L])) =>
        \A A \in { p \in 1..Len(processes) :
                     /\ processes[p].arrivalTime = currentTime + 1
                     /\ processes[p].priority = L } :
          /\ A \in Range(r.readyQueues[L])
          /\ Pos(r.readyQueues[L], A) < Pos(r.readyQueues[L], c)
          /\ \A settings \in ValidSettings :
                LET a == HandleAgingAndStarvation(r, settings)
                    q == a.readyQueues[L]
                IN
                /\ (A \in Range(q) /\ c \in Range(q)) => Pos(q, A) < Pos(q, c)
                /\ \A M \in (MovedInto(a, L) \cap Range(q)) \ {A, c} :
                      /\ A \in Range(q) => Pos(q, A) < Pos(q, M)
                      /\ c \in Range(q) => Pos(q, c) < Pos(q, M)

====
